---- MODULE Spec2Model ----
(***************************************************************************)
(* A model of the warscroll generator (src/app/warscroll.js): the stat     *)
(* inputs, the stat formatter, the SVG preview overlay, the background     *)
(* image load and the PNG export.                                          *)
(*                                                                         *)
(* Representation.                                                         *)
(*  - A JavaScript string is a sequence of one-character strings.          *)
(*  - A JavaScript number is an integer counting tenths: 65 stands for     *)
(*    6.5, 40 for 4.  Numbers with more than one fractional digit are      *)
(*    outside the model.                                                   *)
(*  - A JavaScript value is a record [t, n, s]: t is the type tag, n the   *)
(*    number (tenths) when t = "number", s the characters when             *)
(*    t = "string".                                                        *)
(*  - Pixel sizes and angles are plain integers.                           *)
(*  - An element (svg, canvas) is a record of what was put into it.  Font  *)
(*    sizes, colours, the line breaks of wrapText, the text of the labels  *)
(*    next to the controls and the name of the downloaded file are left    *)
(*    out: no handler reads them back.                                     *)
(***************************************************************************)
EXTENDS Integers, Sequences, FiniteSets, TLC

(***************************************************************************)
(* JavaScript values                                                       *)
(***************************************************************************)
Num(x) == [t |-> "number", n |-> x, s |-> <<>>]
Str(s) == [t |-> "string", n |-> 0, s |-> s]
Null == [t |-> "null", n |-> 0, s |-> <<>>]
Undefined == [t |-> "undefined", n |-> 0, s |-> <<>>]
NaN == [t |-> "NaN", n |-> 0, s |-> <<>>]
EmptyStr == Str(<<>>)

DigitChars == <<"0", "1", "2", "3", "4", "5", "6", "7", "8", "9">>

IsDigit(c) == \E i \in 1..10 : DigitChars[i] = c

DigitVal(c) == (CHOOSE i \in 1..10 : DigitChars[i] = c) - 1

\* the decimal digits of a natural number
RECURSIVE NatToStr(_)
NatToStr(i) == IF i < 10 THEN <<DigitChars[i + 1]>>
               ELSE Append(NatToStr(i \div 10), DigitChars[(i % 10) + 1])

\* the value of a sequence of digits
RECURSIVE DigitsVal(_)
DigitsVal(ds) == IF ds = <<>> THEN 0
                 ELSE 10 * DigitsVal(SubSeq(ds, 1, Len(ds) - 1)) + DigitVal(ds[Len(ds)])

\* the length of the longest prefix of s made of digits
RECURSIVE DigitPrefixLen(_)
DigitPrefixLen(s) == IF s = <<>> \/ ~IsDigit(s[1]) THEN 0
                     ELSE 1 + DigitPrefixLen(Tail(s))

\* String(n) for a number n given in tenths
NumToStr(x) ==
    LET a == IF x < 0 THEN -x ELSE x
        whole == NatToStr(a \div 10)
        frac == IF a % 10 = 0 THEN <<>> ELSE <<".", DigitChars[(a % 10) + 1]>>
    IN  (IF x < 0 THEN <<"-">> ELSE <<>>) \o whole \o frac

\* ToString of a value
ToStr(v) == CASE v.t = "string" -> v.s
              [] v.t = "number" -> NumToStr(v.n)
              [] v.t = "NaN" -> <<"N", "a", "N">>
              [] v.t = "null" -> <<"n", "u", "l", "l">>
              [] OTHER -> <<"u", "n", "d", "e", "f", "i", "n", "e", "d">>

\* the factor a leading "-" stands for
SignOf(s) == IF s # <<>> /\ s[1] = "-" THEN -1 ELSE 1

\* s without its leading sign, when it has one
Unsigned(s) == IF s # <<>> /\ s[1] \in {"-", "+"} THEN Tail(s) ELSE s

\* parseInt of the string s: an optional sign, then the longest run of
\* digits; NaN when there is no digit.  Whatever follows the digits is ignored.
ParseIntStr(s) ==
    LET k == DigitPrefixLen(Unsigned(s))
    IN  IF k = 0 THEN NaN
        ELSE Num(SignOf(s) * 10 * DigitsVal(SubSeq(Unsigned(s), 1, k)))

\* parseInt(v, 10): v is converted to a string first
ParseInt(v) == ParseIntStr(ToStr(v))

\* the number an unsigned decimal literal stands for (one fractional digit
\* at most in this model), NaN when body is not one
UnsignedNumber(body) ==
    LET k == DigitPrefixLen(body)
        rest == SubSeq(body, k + 1, Len(body))
        whole == 10 * DigitsVal(SubSeq(body, 1, k))
    IN  IF rest = <<>> \/ rest = <<".">> THEN (IF k = 0 THEN NaN ELSE Num(whole))
        ELSE IF Len(rest) = 2 /\ rest[1] = "." /\ IsDigit(rest[2])
             THEN Num(whole + DigitVal(rest[2]))
        ELSE NaN

\* Number(s): the whole string must be a decimal literal; the empty string
\* is 0.
StrToNumber(s) ==
    IF s = <<>> THEN Num(0)
    ELSE LET m == UnsignedNumber(Unsigned(s))
         IN  IF m.t = "NaN" THEN NaN ELSE Num(SignOf(s) * m.n)

ToNumber(v) == CASE v.t = "number" -> v
                 [] v.t = "string" -> StrToNumber(v.s)
                 [] v.t = "null" -> Num(0)
                 [] OTHER -> NaN

\* Math.floor on tenths
MathFloor(x) == (x \div 10) * 10

\* s.replace(/\.0+$/, ""): a final "." followed by zeros only is dropped
StripDotZeros(s) ==
    LET dots == {i \in 1..Len(s) : s[i] = "."}
        cut == {i \in dots : i < Len(s) /\ \A j \in (i + 1)..Len(s) : s[j] = "0"}
    IN  IF cut = {} THEN s
        ELSE SubSeq(s, 1, (CHOOSE i \in cut : \A j \in cut : i <= j) - 1)

(***************************************************************************)
(* The stat formatter                                                      *)
(***************************************************************************)
Keys == {"move", "health", "save", "control"}

\* a mutant: the save branch forgets the trailing plus sign
formatStatForDisplay_NoPlus(key, rawValue) ==
    IF rawValue.t \in {"null", "undefined"} \/ rawValue = EmptyStr THEN <<>>
    ELSE IF key = "move"
         THEN LET n == ToNumber(rawValue)
              IN  IF n.t = "NaN" \/ n.n < 0 THEN <<>>
                  ELSE (IF n.n % 10 = 0 THEN NumToStr(n.n)
                        ELSE StripDotZeros(NumToStr(n.n))) \o <<"\"">>
    ELSE LET n == ParseInt(rawValue)
         IN  IF n.t = "NaN" \/ n.n < 0 THEN <<>> ELSE NumToStr(n.n)

formatStatForDisplay(key, rawValue) ==
    IF rawValue.t \in {"null", "undefined"} \/ rawValue = EmptyStr THEN <<>>
    ELSE IF key = "move"
         THEN LET n == ToNumber(rawValue)
              IN  IF n.t = "NaN" \/ n.n < 0 THEN <<>>
                  ELSE (IF n.n % 10 = 0 THEN NumToStr(n.n)
                        ELSE StripDotZeros(NumToStr(n.n))) \o <<"\"">>
    ELSE IF key = "save"
         THEN LET n == ParseInt(rawValue)
              IN  IF n.t = "NaN" \/ n.n < 0 THEN <<>>
                  ELSE NumToStr(n.n) \o <<"+">>
    ELSE LET n == ParseInt(rawValue)
         IN  IF n.t = "NaN" \/ n.n < 0 THEN <<>> ELSE NumToStr(n.n)

(***************************************************************************)
(* The stat input handler                                                  *)
(***************************************************************************)
\* a mutant: the save branch forgets the upper clamp
NormalizeInput_NoUpperClamp(key, v) ==
    IF v = <<>> THEN EmptyStr
    ELSE LET n == ParseInt(Str(v))
             lo == IF key = "save" THEN 10 ELSE 0
         IN  IF n.t = "NaN" THEN EmptyStr
             ELSE Num(MathFloor(IF n.n < lo THEN lo ELSE n.n))

\* the value makeStatInput's oninput stores in stats[key] for the text v of
\* the input element
NormalizeInput(key, v) ==
    IF v = <<>> THEN EmptyStr
    ELSE IF key = "save"
         THEN LET n == ParseInt(Str(v))
              IN  IF n.t = "NaN" THEN EmptyStr
                  ELSE LET n1 == IF n.n < 10 THEN 10 ELSE n.n
                           n2 == IF n1 > 60 THEN 60 ELSE n1
                       IN  Num(MathFloor(n2))
    ELSE LET n == ParseInt(Str(v))
         IN  IF n.t = "NaN" THEN EmptyStr
             ELSE Num(MathFloor(IF n.n < 0 THEN 0 ELSE n.n))

(***************************************************************************)
(* Geometry.  Pixel sizes and angles (degrees) are plain integers; radii   *)
(* that carry a fraction are kept in hundredths of a pixel.                *)
(***************************************************************************)
Min2(a, b) == IF a < b THEN a ELSE b
Max2(a, b) == IF a > b THEN a ELSE b

\* a mutant: Math.floor in the place of Math.round
RoundDiv_Floor(a, b) == a \div b

\* Math.round(a / b) for b > 0: halves round up
RoundDiv(a, b) == (2 * a + b) \div (2 * b)

\* the % of JavaScript: the result takes the sign of the dividend
JsRem(a, b) == IF a >= 0 THEN a % b ELSE -((-a) % b)

\* a point given by its polar coordinates around (cx, cy); cos and sin have
\* period 360, so the angle is kept modulo 360
polarToCartesian(cx, cy, radius, angleDeg) ==
    [cx |-> cx, cy |-> cy, radius |-> radius, angle |-> angleDeg % 360]

\* a mutant: the delta is not brought back into [0, 360)
arcPathD_NoNormalize(cx, cy, radius, startAngle, endAngle) ==
    LET delta == JsRem(endAngle - startAngle, 360)
    IN  [start |-> polarToCartesian(cx, cy, radius, startAngle),
         radius |-> radius,
         largeArcFlag |-> IF delta > 180 THEN 1 ELSE 0,
         sweepFlag |-> IF delta > 0 /\ delta <= 180 THEN 1 ELSE 0,
         end |-> polarToCartesian(cx, cy, radius, endAngle)]

arcPathD(cx, cy, radius, startAngle, endAngle) ==
    LET delta == JsRem(JsRem(endAngle - startAngle, 360) + 360, 360)
    IN  [start |-> polarToCartesian(cx, cy, radius, startAngle),
         radius |-> radius,
         largeArcFlag |-> IF delta > 180 THEN 1 ELSE 0,
         sweepFlag |-> IF delta > 0 /\ delta <= 180 THEN 1 ELSE 0,
         end |-> polarToCartesian(cx, cy, radius, endAngle)]

(***************************************************************************)
(* Translations, images                                                    *)
(***************************************************************************)
Langs == {"de", "en"}
Quarters == {"right", "bottom", "left", "top"}

\* sample contents of the two translation files
EnJson == [warscrollOf |-> "Warscroll of", factions |-> <<"Stormcast">>,
           quarters |-> [right |-> "SAVE", bottom |-> "CONTROL",
                         left |-> "HEALTH", top |-> "MOVE"]]
DeJson == [warscrollOf |-> "Schriftrolle der", factions |-> <<"Sturmgeschmiedete">>,
           quarters |-> [right |-> "RUESTUNG", bottom |-> "KONTROLLE",
                         left |-> "LEBEN", top |-> "BEWEGUNG"]]

\* the results loadTranslations can return: both files loaded.  A lookup
\* that is missing in a file reads "" here, and the code's fallback applies.
TranslationSets == {[de |-> DeJson, en |-> EnJson]}

\* translations[lang]?.warscrollOf || (lang === "de" ? ... : ...)
WarscrollOf(tr, l) == IF tr[l].warscrollOf # "" THEN tr[l].warscrollOf
                      ELSE IF l = "de" THEN "Schriftrolle der" ELSE "Warscroll of"

NullImg == [null |-> TRUE, naturalWidth |-> 0, naturalHeight |-> 0]
Image(w, h) == [null |-> FALSE, naturalWidth |-> w, naturalHeight |-> h]

NullSize == [null |-> TRUE, width |-> 0, height |-> 0]
Size(w, h) == [null |-> FALSE, width |-> w, height |-> h]

DEFAULT_EXPORT_SIZE == [width |-> 800, height |-> 1100]

\* the natural sizes the background image can report when it loads
ImgSizes == {<<1000, 1400>>, <<800, 1100>>, <<0, 0>>}

\* the values window.devicePixelRatio can have
DevicePixelRatios == {1, 2}

\* the texts a stat input element can hand to its oninput handler
Inputs == {<<>>, <<"0">>, <<"9">>, <<"6", ".", "5">>, <<"-", "3">>, <<".", "5">>}

\* exports that may wait for the background at the same time
MaxPending == 1

\* NormalizeInput, tabulated over the input texts
StoredTable == [key \in Keys |-> [v \in Inputs |-> NormalizeInput(key, v)]]

\* the values a stat can hold
StoredValues == {EmptyStr} \cup {StoredTable[key][v] : key \in Keys, v \in Inputs}

\* formatStatForDisplay, tabulated over the values a stat can hold
DisplayTable == [key \in Keys |-> [value \in StoredValues |-> formatStatForDisplay(key, value)]]

(***************************************************************************)
(* The preview overlay                                                     *)
(***************************************************************************)
statsMap == <<[angle |-> 270, key |-> "move"], [angle |-> 180, key |-> "health"],
              [angle |-> 0, key |-> "save"], [angle |-> 90, key |-> "control"]>>

quartersSpecs == <<[id |-> "right", centerAngle |-> 0, reverse |-> FALSE],
                   [id |-> "bottom", centerAngle |-> 90, reverse |-> TRUE],
                   [id |-> "left", centerAngle |-> 180, reverse |-> FALSE],
                   [id |-> "top", centerAngle |-> 270, reverse |-> FALSE]>>

\* statsMap.forEach: one text element per stat whose display string is not
\* empty, in the order of statsMap
RECURSIVE SelectNumerals(_, _, _)
SelectNumerals(entries, st, radius) ==
    IF entries = <<>> THEN <<>>
    ELSE LET e == Head(entries)
             formatted == DisplayTable[e.key][st[e.key]]
             rest == SelectNumerals(Tail(entries), st, radius)
         IN  IF formatted = <<>> THEN rest
             ELSE <<[key |-> e.key, angle |-> e.angle, radius |-> radius,
                     text |-> formatted]>> \o rest

\* the smallest node identity not carried by an element of children
FreshId(children) ==
    CHOOSE i \in 0..Len(children) :
        /\ \A j \in 1..Len(children) : children[j].id # i
        /\ \A k \in 0..(i - 1) : \E j \in 1..Len(children) : children[j].id = k

\* the svg element renderQuarterLabels builds
BuildSvg(id, imgWidth, imgHeight, quarters, st) ==
    LET cx == RoundDiv(imgWidth * 157, 1000)
        cy == RoundDiv(imgHeight * 105, 1000)
        circleRadius == RoundDiv(Min2(imgWidth, imgHeight) * 12, 100)
        textRadius == Max2(1200, circleRadius * 70)
        numberRadius == Max2(800, circleRadius * 40)
        path(spec) == IF spec.reverse
                      THEN arcPathD(cx, cy, textRadius, spec.centerAngle + 45,
                                    spec.centerAngle - 45)
                      ELSE arcPathD(cx, cy, textRadius, spec.centerAngle - 45,
                                    spec.centerAngle + 45)
    IN  [id |-> id,
         viewBox |-> <<imgWidth, imgHeight>>,
         cx |-> cx, cy |-> cy, circleRadius |-> circleRadius,
         paths |-> [i \in 1..4 |-> path(quartersSpecs[i])],
         labels |-> [i \in 1..4 |-> quarters[quartersSpecs[i].id]],
         numerals |-> SelectNumerals(statsMap, st, numberRadius)]

\* no svg element
NoSvg == [id |-> -1, viewBox |-> <<0, 0>>, cx |-> 0, cy |-> 0, circleRadius |-> 0,
          paths |-> <<>>, labels |-> <<>>, numerals |-> <<>>]

\* a mutant: an overlay already in the container is left in place
renderQuarterLabels_KeepsOld(children, imgWidth, imgHeight, quarters, st) ==
    Append(children, BuildSvg(FreshId(children), imgWidth, imgHeight, quarters, st))

\* renderQuarterLabels: the overlay elements of previewInner after the call,
\* given those before it (children)
renderQuarterLabels(children, imgWidth, imgHeight, quarters, st) ==
    LET removed == IF children # <<>> THEN Tail(children) ELSE children
    IN  Append(removed, BuildSvg(FreshId(children), imgWidth, imgHeight, quarters, st))

(***************************************************************************)
(* The export canvas                                                       *)
(***************************************************************************)
\* a mutant: a stat without a display string is drawn as a dash
drawStatAtAngle_Placeholder(angleDeg, key, st, radius) ==
    LET formatted == DisplayTable[key][st[key]]
    IN  <<[key |-> key, angle |-> angleDeg, radius |-> radius,
           text |-> IF formatted = <<>> THEN <<"-">> ELSE formatted]>>

\* drawStatAtAngle: the fillText calls it makes (none or one)
drawStatAtAngle(angleDeg, key, st, radius) ==
    LET formatted == DisplayTable[key][st[key]]
    IN  IF formatted = <<>> THEN <<>>
        ELSE <<[key |-> key, angle |-> angleDeg, radius |-> radius,
                text |-> formatted]>>

\* the four calls of drawStatAtAngle
CanvasNumerals(st, radius) ==
    drawStatAtAngle(270, "move", st, radius) \o drawStatAtAngle(180, "health", st, radius)
        \o drawStatAtAngle(0, "save", st, radius) \o drawStatAtAngle(90, "control", st, radius)

NoCanvas == [none |-> TRUE, width |-> 0, height |-> 0, styleWidth |-> 0,
             styleHeight |-> 0, background |-> "none", border |-> FALSE,
             title |-> <<>>, cx |-> 0, cy |-> 0, circleRadius |-> 0,
             numerals |-> <<>>, body |-> <<>>]

\* formatStatForDisplay(key, value) || "-"
OrDash(text) == IF text = <<>> THEN <<"-">> ELSE text

\* a mutant: a failed drawImage leaves the canvas unpainted
drawWarscrollCanvas_NoFallbackFill(title, width, height, bgImg, st, dpr, drawOk) ==
    LET cx == RoundDiv(width * 157, 1000)
        cy == RoundDiv(height * 105, 1000)
        circleRadius == RoundDiv(Min2(width, height) * 12, 100)
        numberRadius == Max2(800, circleRadius * 45)
    IN  [none |-> FALSE,
         width |-> width * dpr, height |-> height * dpr,
         styleWidth |-> width, styleHeight |-> height,
         background |-> IF bgImg.null THEN "white"
                        ELSE IF drawOk THEN "image" ELSE "none",
         border |-> TRUE,
         title |-> title,
         cx |-> cx, cy |-> cy, circleRadius |-> circleRadius,
         numerals |-> CanvasNumerals(st, numberRadius),
         body |-> <<[label |-> "Unit Type: Custom", value |-> <<>>],
                    [label |-> "Move: ", value |-> OrDash(DisplayTable["move"][st["move"]])],
                    [label |-> "Wounds: ", value |-> OrDash(DisplayTable["health"][st["health"]])],
                    [label |-> "Save: ", value |-> OrDash(DisplayTable["save"][st["save"]])],
                    [label |-> "Control: ", value |-> OrDash(DisplayTable["control"][st["control"]])],
                    [label |-> "", value |-> <<>>],
                    [label |-> "Abilities:", value |-> <<>>],
                    [label |-> "- Example ability 1", value |-> <<>>],
                    [label |-> "- Example ability 2", value |-> <<>>]>>]

\* drawWarscrollCanvas: the canvas it returns.  dpr is window.devicePixelRatio;
\* drawOk tells whether ctx.drawImage returns (TRUE) or throws (FALSE).
drawWarscrollCanvas(title, width, height, bgImg, st, dpr, drawOk) ==
    LET cx == RoundDiv(width * 157, 1000)
        cy == RoundDiv(height * 105, 1000)
        circleRadius == RoundDiv(Min2(width, height) * 12, 100)
        numberRadius == Max2(800, circleRadius * 45)
    IN  [none |-> FALSE,
         width |-> width * dpr, height |-> height * dpr,
         styleWidth |-> width, styleHeight |-> height,
         background |-> IF bgImg.null THEN "white"
                        ELSE IF drawOk THEN "image" ELSE "white",
         border |-> TRUE,
         title |-> title,
         cx |-> cx, cy |-> cy, circleRadius |-> circleRadius,
         numerals |-> CanvasNumerals(st, numberRadius),
         body |-> <<[label |-> "Unit Type: Custom", value |-> <<>>],
                    [label |-> "Move: ", value |-> OrDash(DisplayTable["move"][st["move"]])],
                    [label |-> "Wounds: ", value |-> OrDash(DisplayTable["health"][st["health"]])],
                    [label |-> "Save: ", value |-> OrDash(DisplayTable["save"][st["save"]])],
                    [label |-> "Control: ", value |-> OrDash(DisplayTable["control"][st["control"]])],
                    [label |-> "", value |-> <<>>],
                    [label |-> "Abilities:", value |-> <<>>],
                    [label |-> "- Example ability 1", value |-> <<>>],
                    [label |-> "- Example ability 2", value |-> <<>>]>>]

(***************************************************************************)
(* State                                                                   *)
(***************************************************************************)
VARIABLES
    translations,    \* the value loadTranslations returned
    dpr,             \* window.devicePixelRatio || 1
    lang,            \* the current language
    selected,        \* factionSelect.value ("" when no faction is selected)
    stats,           \* the stat set: key -> "" or a number
    bgState,         \* the background load: "pending", "loaded" or "failed"
    bgImage,         \* the loaded image, or null
    previewImgSize,  \* the size the preview was given, or null
    previewTitle,    \* previewTitle.textContent, as a sequence of words
    saveBtnDisplay,  \* saveBtn.style.display
    overlays,        \* the overlay elements among previewInner's children
    lastSvg,         \* the svg element the latest renderQuarterLabels call built
    waiting,         \* the click handlers suspended on await bgLoadPromise
    jobs,            \* the promise reactions queued to run before the next event
    download,        \* the canvas the step just taken handed to the browser
    arcIn,           \* the arguments of a call of arcPathD
    arcOut,          \* the path that call returned
    fmtIn,           \* the arguments of a call of formatStatForDisplay
    fmtOut,          \* the string that call returned
    layIn,           \* the image width and height handed to the two renderers
    layOut           \* the circleRadius each computed, for that size and its double

appVars == <<translations, dpr, lang, selected, stats, bgState, bgImage,
             previewImgSize, previewTitle, saveBtnDisplay, overlays, lastSvg,
             waiting, jobs, download>>
arcVars == <<arcIn, arcOut>>
fmtVars == <<fmtIn, fmtOut>>
layVars == <<layIn, layOut>>
vars == <<appVars, arcVars, fmtVars, layVars>>

NoArc == [cx |-> 0, cy |-> 0, radius |-> 0, startAngle |-> 0, endAngle |-> 0]
NoPath == [start |-> polarToCartesian(0, 0, 0, 0), radius |-> -1, largeArcFlag |-> -1,
           sweepFlag |-> -1, end |-> polarToCartesian(0, 0, 0, 0)]
NoFmt == [key |-> "move", rawValue |-> EmptyStr]
NoOut == [none |-> TRUE, text |-> <<>>]
NoLay == [width |-> 0, height |-> 0]
NoRadii == [none |-> TRUE, preview |-> 0, previewDouble |-> 0, export |-> 0,
            exportDouble |-> 0]

LastOf(seq) == seq[Len(seq)]

\* translations[lang]?.quarters || {}, each label read as quarters.x || ""
QuartersOf(tr, l) == tr[l].quarters

\* the options of factionSelect that buildFactionOptions builds
FactionOptions(tr, l) == {""} \cup {tr[l].factions[i] : i \in 1..Len(tr[l].factions)}

\* the overlay elements after "if (previewImgSize) renderQuarterLabels(...)"
RenderIfSized(children, size, tr, l, st) ==
    IF size.null THEN children
    ELSE renderQuarterLabels(children, size.width, size.height, QuartersOf(tr, l), st)

\* updatePreview's title for the selected faction f
TitleFor(tr, l, f) == IF f = "" THEN <<>> ELSE <<WarscrollOf(tr, l), f>>

DisplayFor(f) == IF f = "" THEN "none" ELSE "block"

\* the svg of the latest call: unchanged when the handler made no call
LatestSvg(before, after, size) == IF size.null THEN before ELSE LastOf(after)

AppInit ==
    /\ translations \in TranslationSets
    /\ dpr \in DevicePixelRatios
    /\ lang \in Langs
    /\ selected = ""
    /\ stats = [k \in Keys |-> EmptyStr]
    /\ bgState = "pending"
    /\ bgImage = NullImg
    /\ previewImgSize = NullSize
    /\ previewTitle = <<>>
    /\ saveBtnDisplay = "none"
    /\ overlays = <<>>
    /\ lastSvg = NoSvg
    /\ waiting = 0
    /\ jobs = <<>>
    /\ download = NoCanvas

Init ==
    /\ AppInit
    /\ arcIn = NoArc /\ arcOut = NoPath
    /\ fmtIn = NoFmt /\ fmtOut = NoOut
    /\ layIn = NoLay /\ layOut = NoRadii

(***************************************************************************)
(* Event handlers.  An event is handled only when no promise reaction is   *)
(* queued: reactions run before the browser dispatches the next event.     *)
(***************************************************************************)
\* makeStatInput's oninput for the input of stat key, whose text is v
OnInput(key, v) ==
    /\ jobs = <<>>
    /\ stats' = [stats EXCEPT ![key] = StoredTable[key][v]]
    /\ overlays' = RenderIfSized(overlays, previewImgSize, translations, lang, stats')
    /\ lastSvg' = LatestSvg(lastSvg, overlays', previewImgSize)
    /\ download' = NoCanvas
    /\ UNCHANGED <<translations, dpr, lang, selected, bgState, bgImage, previewImgSize,
                   previewTitle, saveBtnDisplay, waiting, jobs>>
    /\ UNCHANGED <<arcVars, fmtVars, layVars>>

\* a mutant: the language click rebuilds the options without updatePreview
LangClick_NoUpdatePreview(l) ==
    /\ jobs = <<>>
    /\ lang' = l
    /\ selected' = ""
    /\ overlays' = RenderIfSized(overlays, previewImgSize, translations, l, stats)
    /\ lastSvg' = LatestSvg(lastSvg, overlays', previewImgSize)
    /\ download' = NoCanvas
    /\ UNCHANGED <<translations, dpr, stats, bgState, bgImage, previewImgSize,
                   previewTitle, saveBtnDisplay, waiting, jobs>>
    /\ UNCHANGED <<arcVars, fmtVars, layVars>>

\* a mutant: the language click renders with the language it replaces
LangClick_StaleLabels(l) ==
    /\ jobs = <<>>
    /\ lang' = l
    /\ selected' = ""
    /\ previewTitle' = TitleFor(translations, l, "")
    /\ saveBtnDisplay' = DisplayFor("")
    /\ overlays' = RenderIfSized(
                       RenderIfSized(overlays, previewImgSize, translations, lang, stats),
                       previewImgSize, translations, lang, stats)
    /\ lastSvg' = LatestSvg(lastSvg, overlays', previewImgSize)
    /\ download' = NoCanvas
    /\ UNCHANGED <<translations, dpr, stats, bgState, bgImage, previewImgSize,
                   waiting, jobs>>
    /\ UNCHANGED <<arcVars, fmtVars, layVars>>

\* the onclick of the language button l: buildFactionOptions leaves the empty
\* option selected, updatePreview renders, and the handler renders again
LangClick(l) ==
    /\ jobs = <<>>
    /\ lang' = l
    /\ selected' = ""
    /\ previewTitle' = TitleFor(translations, l, "")
    /\ saveBtnDisplay' = DisplayFor("")
    /\ overlays' = RenderIfSized(
                       RenderIfSized(overlays, previewImgSize, translations, l, stats),
                       previewImgSize, translations, l, stats)
    /\ lastSvg' = LatestSvg(lastSvg, overlays', previewImgSize)
    /\ download' = NoCanvas
    /\ UNCHANGED <<translations, dpr, stats, bgState, bgImage, previewImgSize,
                   waiting, jobs>>
    /\ UNCHANGED <<arcVars, fmtVars, layVars>>

\* the change event of factionSelect, the user having picked option f:
\* updatePreview
FactionChange(f) ==
    /\ jobs = <<>>
    /\ f \in FactionOptions(translations, lang)
    /\ f # selected
    /\ selected' = f
    /\ previewTitle' = TitleFor(translations, lang, f)
    /\ saveBtnDisplay' = DisplayFor(f)
    /\ overlays' = RenderIfSized(overlays, previewImgSize, translations, lang, stats)
    /\ lastSvg' = LatestSvg(lastSvg, overlays', previewImgSize)
    /\ download' = NoCanvas
    /\ UNCHANGED <<translations, dpr, lang, stats, bgState, bgImage, previewImgSize,
                   waiting, jobs>>
    /\ UNCHANGED <<arcVars, fmtVars, layVars>>

\* the reactions queued when bgLoadPromise is resolved: the then of
\* bootstrap's last statement, registered first, then the suspended click
\* handlers in the order of their clicks
Reactions(n) == <<"then">> \o [i \in 1..n |-> "export"]

\* img.onload: loadImage's promise is fulfilled, the first then sets bgImage
\* and bgLoadPromise is resolved with the image
ImgLoaded(w, h) ==
    /\ jobs = <<>>
    /\ bgState = "pending"
    /\ bgState' = "loaded"
    /\ bgImage' = Image(w, h)
    /\ jobs' = Reactions(waiting)
    /\ waiting' = 0
    /\ download' = NoCanvas
    /\ UNCHANGED <<translations, dpr, lang, selected, stats, previewImgSize,
                   previewTitle, saveBtnDisplay, overlays, lastSvg>>
    /\ UNCHANGED <<arcVars, fmtVars, layVars>>

\* a mutant: the rejection is not caught, and the suspended click handlers
\* are never resumed
ImgFailed_DropsWaiting ==
    /\ jobs = <<>>
    /\ bgState = "pending"
    /\ bgState' = "failed"
    /\ bgImage' = NullImg
    /\ jobs' = <<"then">>
    /\ download' = NoCanvas
    /\ UNCHANGED <<translations, dpr, lang, selected, stats, previewImgSize,
                   previewTitle, saveBtnDisplay, overlays, lastSvg, waiting>>
    /\ UNCHANGED <<arcVars, fmtVars, layVars>>

\* img.onerror: loadImage's promise is rejected, the catch sets bgImage to
\* null and bgLoadPromise is resolved with null
ImgFailed ==
    /\ jobs = <<>>
    /\ bgState = "pending"
    /\ bgState' = "failed"
    /\ bgImage' = NullImg
    /\ jobs' = Reactions(waiting)
    /\ waiting' = 0
    /\ download' = NoCanvas
    /\ UNCHANGED <<translations, dpr, lang, selected, stats, previewImgSize,
                   previewTitle, saveBtnDisplay, overlays, lastSvg>>
    /\ UNCHANGED <<arcVars, fmtVars, layVars>>

\* bgLoadPromise.then((img) => ...) at the end of bootstrap
BgLoadThen ==
    /\ jobs # <<>> /\ Head(jobs) = "then"
    /\ jobs' = Tail(jobs)
    /\ previewImgSize' =
           IF ~bgImage.null /\ bgImage.naturalWidth # 0 /\ bgImage.naturalHeight # 0
           THEN Size(bgImage.naturalWidth, bgImage.naturalHeight)
           ELSE previewImgSize
    /\ previewTitle' = TitleFor(translations, lang, selected)
    /\ saveBtnDisplay' = DisplayFor(selected)
    /\ overlays' =
           IF ~bgImage.null /\ bgImage.naturalWidth # 0 /\ bgImage.naturalHeight # 0
           THEN renderQuarterLabels(
                    RenderIfSized(overlays, previewImgSize', translations, lang, stats),
                    bgImage.naturalWidth, bgImage.naturalHeight,
                    QuartersOf(translations, lang), stats)
           ELSE RenderIfSized(overlays, previewImgSize, translations, lang, stats)
    /\ lastSvg' = LatestSvg(lastSvg, overlays', previewImgSize')
    /\ download' = NoCanvas
    /\ UNCHANGED <<translations, dpr, lang, selected, stats, bgState, bgImage, waiting>>
    /\ UNCHANGED <<arcVars, fmtVars, layVars>>

\* the outcomes of ctx.drawImage: it returns (TRUE) or throws (FALSE); it is
\* not called without an image
DrawOutcomes(img) == IF img.null THEN {TRUE} ELSE BOOLEAN

\* the click handler from "const width = ..." on: the canvas handed to the
\* browser as a download
Rasterize(img, drawOk) ==
    LET width == IF ~img.null THEN img.naturalWidth ELSE DEFAULT_EXPORT_SIZE.width
        height == IF ~img.null THEN img.naturalHeight ELSE DEFAULT_EXPORT_SIZE.height
        title == IF previewTitle # <<>> THEN previewTitle
                 ELSE <<WarscrollOf(translations, lang)>>
    IN  drawWarscrollCanvas(title, width, height, img, stats, dpr, drawOk)

\* a mutant: the click handler does not wait for the background
SaveClick_NoAwait ==
    /\ jobs = <<>>
    /\ saveBtnDisplay = "block"
    /\ \E drawOk \in DrawOutcomes(bgImage) : download' = Rasterize(bgImage, drawOk)
    /\ UNCHANGED <<translations, dpr, lang, selected, stats, bgState, bgImage,
                   previewImgSize, previewTitle, saveBtnDisplay, overlays, lastSvg,
                   waiting, jobs>>
    /\ UNCHANGED <<arcVars, fmtVars, layVars>>

\* the click handler of saveBtn up to its await: with an image at hand it
\* rasterizes at once; without one it suspends on bgLoadPromise, and is
\* queued at once when that promise is already resolved
SaveClick ==
    /\ jobs = <<>>
    /\ saveBtnDisplay = "block"
    /\ IF ~bgImage.null
       THEN /\ \E drawOk \in DrawOutcomes(bgImage) : download' = Rasterize(bgImage, drawOk)
            /\ UNCHANGED <<waiting, jobs>>
       ELSE IF bgState = "pending"
       THEN /\ waiting < MaxPending
            /\ waiting' = waiting + 1
            /\ download' = NoCanvas
            /\ UNCHANGED jobs
       ELSE /\ jobs' = <<"export">>
            /\ download' = NoCanvas
            /\ UNCHANGED waiting
    /\ UNCHANGED <<translations, dpr, lang, selected, stats, bgState, bgImage,
                   previewImgSize, previewTitle, saveBtnDisplay, overlays, lastSvg>>
    /\ UNCHANGED <<arcVars, fmtVars, layVars>>

\* the click handler after its await: img is the value bgLoadPromise was
\* resolved with
ExportResume ==
    /\ jobs # <<>> /\ Head(jobs) = "export"
    /\ jobs' = Tail(jobs)
    /\ \E drawOk \in DrawOutcomes(bgImage) : download' = Rasterize(bgImage, drawOk)
    /\ UNCHANGED <<translations, dpr, lang, selected, stats, bgState, bgImage,
                   previewImgSize, previewTitle, saveBtnDisplay, overlays, lastSvg,
                   waiting>>
    /\ UNCHANGED <<arcVars, fmtVars, layVars>>

Next ==
    \/ \E key \in Keys, v \in Inputs : OnInput(key, v)
    \/ \E l \in Langs : LangClick(l)
    \/ \E f \in {"", "Stormcast", "Sturmgeschmiedete"} : FactionChange(f)
    \/ \E sz \in ImgSizes : ImgLoaded(sz[1], sz[2])
    \/ ImgFailed
    \/ BgLoadThen
    \/ SaveClick
    \/ ExportResume

Spec == Init /\ [][Next]_vars

\* promise reactions are run to the end once queued; whether the image load
\* ever settles is up to the network
LiveSpec == Spec /\ WF_vars(BgLoadThen) /\ WF_vars(ExportResume)

(***************************************************************************)
(* Calls of the pure functions on their own: the arguments are drawn in    *)
(* the initial state and the one action makes the call; the application    *)
(* stays as bootstrap left it.                                             *)
(***************************************************************************)
AppIdle == AppInit /\ dpr = 1 /\ lang = "en"

\* the largest whole stat value handed to formatStatForDisplay
MaxStat == 12

\* the values handed to formatStatForDisplay: null, undefined, "", the
\* numbers from -1 to MaxStat in steps of 0.1, and the same numbers as strings
RawValues == {Null, Undefined, EmptyStr}
                 \cup {Num(x) : x \in (-10)..(10 * MaxStat)}
                 \cup {Str(NumToStr(x)) : x \in (-10)..(10 * MaxStat)}

FmtInit ==
    /\ AppIdle
    /\ arcIn = NoArc /\ arcOut = NoPath
    /\ fmtIn \in [key : Keys, rawValue : RawValues]
    /\ fmtOut = NoOut
    /\ layIn = NoLay /\ layOut = NoRadii

FormatCall ==
    /\ fmtOut.none
    /\ fmtOut' = [none |-> FALSE, text |-> formatStatForDisplay(fmtIn.key, fmtIn.rawValue)]
    /\ UNCHANGED <<appVars, arcVars, fmtIn, layVars>>

SpecFormat == FmtInit /\ [][FormatCall]_vars

\* full turns the angles handed to arcPathD range over, either way
MaxTurns == 1

\* multiples of 45 degrees and their neighbours
Angles == {45 * k + o : k \in (-8 * MaxTurns)..(8 * MaxTurns), o \in {-1, 0, 1}}

ArcInit ==
    /\ AppIdle
    /\ arcIn \in [cx : {157}, cy : {147}, radius : {8400},
                  startAngle : Angles, endAngle : Angles]
    /\ arcOut = NoPath
    /\ fmtIn = NoFmt /\ fmtOut = NoOut
    /\ layIn = NoLay /\ layOut = NoRadii

ArcCall ==
    /\ arcOut = NoPath
    /\ arcOut' = arcPathD(arcIn.cx, arcIn.cy, arcIn.radius, arcIn.startAngle, arcIn.endAngle)
    /\ UNCHANGED <<appVars, arcIn, fmtVars, layVars>>

SpecArc == ArcInit /\ [][ArcCall]_vars

\* the largest image width and height handed to the renderers
MaxSide == 26

LayoutInit ==
    /\ AppIdle
    /\ arcIn = NoArc /\ arcOut = NoPath
    /\ fmtIn = NoFmt /\ fmtOut = NoOut
    /\ layIn \in [width : 1..MaxSide, height : 1..MaxSide]
    /\ layOut = NoRadii

\* both renderers are run for the size layIn and for twice that size, with
\* the labels and stats of the application; the circleRadius of each is kept
LayoutCall ==
    /\ layOut.none
    /\ layOut' =
           [none |-> FALSE,
            preview |->
                LastOf(renderQuarterLabels(<<>>, layIn.width, layIn.height,
                           QuartersOf(translations, lang), stats)).circleRadius,
            previewDouble |->
                LastOf(renderQuarterLabels(<<>>, 2 * layIn.width, 2 * layIn.height,
                           QuartersOf(translations, lang), stats)).circleRadius,
            export |->
                drawWarscrollCanvas(<<>>, layIn.width, layIn.height, NullImg,
                                    stats, dpr, TRUE).circleRadius,
            exportDouble |->
                drawWarscrollCanvas(<<>>, 2 * layIn.width, 2 * layIn.height, NullImg,
                                    stats, dpr, TRUE).circleRadius]
    /\ UNCHANGED <<appVars, arcVars, fmtVars, layIn>>

SpecLayout == LayoutInit /\ [][LayoutCall]_vars

(***************************************************************************)
(* Reference definitions, written from the stated rules and not from the   *)
(* code                                                                    *)
(***************************************************************************)
\* the number of decimal digits of a natural number
RECURSIVE RefDigitCount(_)
RefDigitCount(n) == IF n < 10 THEN 1 ELSE 1 + RefDigitCount(n \div 10)

RECURSIVE RefPow10(_)
RefPow10(e) == IF e = 0 THEN 1 ELSE 10 * RefPow10(e - 1)

\* the decimal numeral of a natural number, most significant digit first
RefDecimal(n) ==
    [i \in 1..RefDigitCount(n) |->
        DigitChars[((n \div RefPow10(RefDigitCount(n) - i)) % 10) + 1]]

\* the display string of the whole number n for a stat kind
RefFormat(key, n) ==
    RefDecimal(n) \o (CASE key = "save" -> <<"+">>
                        [] key = "move" -> <<"\"">>
                        [] OTHER -> <<>>)

\* the display string of a stored stat value: "" for an absent one; a whole
\* number of tenths x stands for the number x / 10, a fraction keeps its digit
RefDisplay(key, value) ==
    IF value.t # "number" THEN <<>>
    ELSE IF value.n % 10 = 0 THEN RefFormat(key, value.n \div 10)
    ELSE RefDecimal(value.n \div 10) \o <<".", DigitChars[(value.n % 10) + 1]>>
             \o (CASE key = "save" -> <<"+">> [] key = "move" -> <<"\"">> [] OTHER -> <<>>)

(***************************************************************************)
(* C4                                                                      *)
(***************************************************************************)
\* C4: formatStatForDisplay agrees with the reference formatter: for a
\* non-negative whole number n, given as a number or as its numeral, save
\* gives n followed by "+", health and control give n, move gives n followed
\* by a double quote with no trailing .0; null, undefined and "" give the
\* empty string for every kind; every call returns a string.
C4_FormatAgrees ==
    ~fmtOut.none =>
        /\ fmtOut.text \in Seq({"-", ".", "+", "\""} \cup {DigitChars[i] : i \in 1..10})
        /\ fmtIn.rawValue \in {Null, Undefined, EmptyStr} => fmtOut.text = <<>>
        /\ \A n \in 0..MaxStat :
               fmtIn.rawValue \in {Num(10 * n), Str(RefDecimal(n))}
                   => fmtOut.text = RefFormat(fmtIn.key, n)

\* a save of 12 was formatted as 12+
C4_Witness ==
    /\ ~fmtOut.none
    /\ fmtIn = [key |-> "save", rawValue |-> Num(120)]
    /\ fmtOut.text = <<"1", "2", "+">>

(***************************************************************************)
(* C10                                                                     *)
(***************************************************************************)
\* C10: the flags of arcPathD depend only on the delta endAngle - startAngle
\* brought into [0, 360), also for negative angles: a delta in (0, 180]
\* gives large-arc 0 and sweep 1, a delta in (180, 360) gives large-arc 1
\* and sweep 0, and a zero delta (endAngle = startAngle + 360 included)
\* gives 0 and 0.
C10_ArcFlags ==
    arcOut # NoPath =>
        LET delta == (arcIn.endAngle - arcIn.startAngle) % 360
        IN  /\ (delta > 0 /\ delta <= 180) =>
                   (arcOut.largeArcFlag = 0 /\ arcOut.sweepFlag = 1)
            /\ (delta > 180 /\ delta < 360) =>
                   (arcOut.largeArcFlag = 1 /\ arcOut.sweepFlag = 0)
            /\ delta = 0 => (arcOut.largeArcFlag = 0 /\ arcOut.sweepFlag = 0)

\* a path was built for an end angle below the start angle whose normalized
\* delta exceeds 180
C10_Witness ==
    /\ arcOut # NoPath
    /\ arcIn.startAngle = 45 /\ arcIn.endAngle = -45
    /\ arcOut.largeArcFlag = 1 /\ arcOut.sweepFlag = 0

(***************************************************************************)
(* C1, C2, C3: the stat inputs                                             *)
(***************************************************************************)
\* the digits an input text starts with, after an optional sign
RefLeadingDigits(v) ==
    LET body == IF v # <<>> /\ v[1] \in {"-", "+"} THEN Tail(v) ELSE v
        stops == {i \in 1..Len(body) : ~IsDigit(body[i])}
        first == IF stops = {} THEN Len(body) + 1
                 ELSE CHOOSE i \in stops : \A j \in stops : i <= j
    IN  SubSeq(body, 1, first - 1)

RefNegative(v) == v # <<>> /\ v[1] = "-"

\* the value of a numeral, digit by digit from position i on
RECURSIVE RefWholeFrom(_, _)
RefWholeFrom(ds, i) ==
    IF i > Len(ds) THEN 0
    ELSE DigitVal(ds[i]) * RefPow10(Len(ds) - i) + RefWholeFrom(ds, i + 1)

\* the whole number an input text is parsed to, its fraction dropped
RefEntered(v) ==
    IF RefNegative(v) THEN -RefWholeFrom(RefLeadingDigits(v), 1)
    ELSE RefWholeFrom(RefLeadingDigits(v), 1)

\* the stat value the rules store for an input text: absent for an empty or
\* unparsable text; save clamped into 1..6; health and control not below 0
RefStored(key, v) ==
    IF v = <<>> \/ RefLeadingDigits(v) = <<>> THEN EmptyStr
    ELSE IF key = "save" THEN Num(10 * Min2(6, Max2(1, RefEntered(v))))
    ELSE Num(10 * Max2(0, RefEntered(v)))

RefStoredTable == [key \in Keys |-> [v \in Inputs |-> RefStored(key, v)]]

C1_StatRange ==
    /\ stats["save"] = EmptyStr \/ \E n \in 1..6 : stats["save"] = Num(10 * n)
    /\ \A key \in {"health", "control"} :
           stats[key] = EmptyStr
               \/ (stats[key].t = "number" /\ stats[key].n >= 0 /\ stats[key].n % 10 = 0)

C1_InputStored ==
    \A key \in {"save", "health", "control"}, v \in Inputs :
        stats'[key] = RefStoredTable[key][v] \/ ~OnInput(key, v)

OverlayText(svg, key) ==
    IF \E i \in 1..Len(svg.numerals) : svg.numerals[i].key = key
    THEN svg.numerals[CHOOSE i \in 1..Len(svg.numerals) : svg.numerals[i].key = key].text
    ELSE <<>>

\* C2: a non-negative fractional move input is kept with its fraction: after
\* the input event for 6.5 the stored move value is 6.5 and the preview
\* shows 6.5 followed by a double quote.
C2_MoveFractionKept ==
    [][OnInput("move", <<"6", ".", "5">>) =>
          /\ stats'["move"] = Num(65)
          /\ \A i \in 1..Len(overlays') :
                 OverlayText(overlays'[i], "move") = <<"6", ".", "5", "\"">>]_vars

\* C3: a negative move input is rejected: after the input event the stored
\* move value is absent and the preview shows no move numeral.
C3_NegativeMoveAbsent ==
    [][OnInput("move", <<"-", "3">>) =>
          /\ stats'["move"] = EmptyStr
          /\ \A i \in 1..Len(overlays') : OverlayText(overlays'[i], "move") = <<>>]_vars

(***************************************************************************)
(* C5, C6: the preview overlay                                             *)
(***************************************************************************)
\* C5: after any sequence of render calls the preview container holds at
\* most one overlay element, and it is the one the latest call built: a
\* prior overlay is never kept alongside the new one.
C5_OneOverlay ==
    /\ Len(overlays) <= 1
    /\ lastSvg = NoSvg => overlays = <<>>
    /\ lastSvg # NoSvg => overlays = <<lastSvg>>

\* the overlay was rebuilt with a stat numeral in it
C5_Witness ==
    /\ overlays = <<lastSvg>>
    /\ lastSvg.numerals # <<>>
    /\ lang = "de"

\* the stat kinds a sequence of numerals draws
DrawnKeys(numerals) == {numerals[i].key : i \in 1..Len(numerals)}

RefDisplayTable == [key \in Keys |-> [value \in StoredValues |-> RefDisplay(key, value)]]

\* the stat kinds whose display string is not empty
ShownKeys == {key \in Keys : RefDisplayTable[key][stats[key]] # <<>>}

NumeralsMatch(numerals) ==
    /\ DrawnKeys(numerals) = ShownKeys
    /\ Len(numerals) = Cardinality(ShownKeys)
    /\ \A i \in 1..Len(numerals) :
           numerals[i].text = RefDisplayTable[numerals[i].key][stats[numerals[i].key]]

\* C6: in both renderers a numeral is drawn for a stat kind exactly when its
\* display string is not empty; with an empty stat set neither the overlay
\* nor the exported image holds a numeral, and each of the four stat lines
\* of the export body shows "-".
C6_NumeralsIffShown ==
    /\ \A i \in 1..Len(overlays) : NumeralsMatch(overlays[i].numerals)
    /\ ~download.none =>
           /\ NumeralsMatch(download.numerals)
           /\ ShownKeys = {} =>
                  /\ download.numerals = <<>>
                  /\ \A i \in 2..5 : download.body[i].value = <<"-">>

\* an export of the empty stat set, with the overlay on screen
C6_Witness ==
    /\ ~download.none
    /\ \A key \in Keys : stats[key] = EmptyStr
    /\ download.numerals = <<>>
    /\ overlays # <<>>
    /\ download.body[2] = [label |-> "Move: ", value |-> <<"-">>]

(***************************************************************************)
(* C7, C8, C9: the export                                                  *)
(***************************************************************************)
\* the export drew border, title, numerals and body
AllDrawn(canvas) ==
    /\ canvas.border
    /\ canvas.title # <<>>
    /\ NumeralsMatch(canvas.numerals)
    /\ Len(canvas.body) = 9
    /\ \A i \in 2..5 : canvas.body[i].value # <<>>

\* drawImage threw in the export just made
DrawThrew == ~download.none /\ ~bgImage.null /\ download.background # "image"

ExportsPending == waiting + Cardinality({i \in 1..Len(jobs) : jobs[i] = "export"})

\* the click handlers queued to resume
ExportsQueued == Cardinality({i \in 1..Len(jobs) : jobs[i] = "export"})

C11_ArcsInSector ==
    \A i \in 1..Len(overlays) : \A q \in 1..4 :
        LET path == overlays[i].paths[q]
            centre == quartersSpecs[q].centerAngle
        IN  /\ {path.start.angle, path.end.angle}
                   = {(centre - 45) % 360, (centre + 45) % 360}
            /\ path.largeArcFlag = 0

(***************************************************************************)
(* C13, C14: the geometry of the two renderers                             *)
(***************************************************************************)
\* the numeral of stat key among numerals, when there is one
NumeralOf(numerals, key) ==
    numerals[CHOOSE i \in 1..Len(numerals) : numerals[i].key = key]

\* the export just made and the overlay on screen were drawn for the same
\* image width and height
SameImage(svg, canvas) ==
    svg.viewBox = <<canvas.styleWidth, canvas.styleHeight>>

\* C13: for the same image width and height and the same stat set the
\* overlay and the export place each stat numeral at the same point: same
\* centre, same circleRadius, same numeral radius, same angle per stat kind.
C13_SameNumeralPoints ==
    \A i \in 1..Len(overlays) :
        (~download.none /\ SameImage(overlays[i], download)) =>
            /\ overlays[i].cx = download.cx /\ overlays[i].cy = download.cy
            /\ overlays[i].circleRadius = download.circleRadius
            /\ \A key \in DrawnKeys(download.numerals) :
                   /\ key \in DrawnKeys(overlays[i].numerals)
                   /\ NumeralOf(overlays[i].numerals, key).angle
                          = NumeralOf(download.numerals, key).angle
                   /\ NumeralOf(overlays[i].numerals, key).radius
                          = NumeralOf(download.numerals, key).radius

\* C14: neither renderer produces an overlay or an image from a width or
\* height that is 0 or negative, and no zero-radius layout is computed.
C14_NoDegenerateLayout ==
    /\ \A i \in 1..Len(overlays) :
           /\ overlays[i].viewBox[1] > 0 /\ overlays[i].viewBox[2] > 0
           /\ overlays[i].circleRadius > 0
    /\ ~download.none =>
           /\ download.styleWidth > 0 /\ download.styleHeight > 0
           /\ download.circleRadius > 0

(***************************************************************************)
(* C15: the preview follows its inputs                                     *)
(***************************************************************************)
\* the quarter labels of a language, in the order right, bottom, left, top
RefLabels(l) == IF l = "de" THEN <<"RUESTUNG", "KONTROLLE", "LEBEN", "BEWEGUNG">>
                ELSE <<"SAVE", "CONTROL", "HEALTH", "MOVE">>

\* C15: in every state an overlay on screen carries the four quarter labels
\* of the current language, and its numerals are exactly the display
\* strings of the current stat set, at the angle of their stat kind.
C15_PreviewInSync ==
    \A i \in 1..Len(overlays) :
        /\ overlays[i].labels = RefLabels(lang)
        /\ NumeralsMatch(overlays[i].numerals)
        /\ \A n \in 1..Len(overlays[i].numerals) :
               overlays[i].numerals[n].angle =
                   CASE overlays[i].numerals[n].key = "move" -> 270
                     [] overlays[i].numerals[n].key = "health" -> 180
                     [] overlays[i].numerals[n].key = "save" -> 0
                     [] OTHER -> 90

\* an overlay with the German labels and the numeral of an edited stat
C15_Witness ==
    /\ overlays # <<>>
    /\ lang = "de"
    /\ overlays[1].labels[4] = "BEWEGUNG"
    /\ stats["save"] = Num(60)
    /\ OverlayText(overlays[1], "save") = <<"6", "+">>

(***************************************************************************)
(* C16: exports and stat edits                                             *)
(***************************************************************************)
\* C16: between an export click and the rasterization of that export no
\* stat input event changes the stat set, so the export shows the stat set
\* as it was when the export was triggered.
C16_NoEditWhileExporting ==
    [][ExportsPending > 0 => stats' = stats]_vars

(***************************************************************************)
(* C17: the save button                                                    *)
(***************************************************************************)
\* the step triggers an export: a click handler starts to wait, is queued,
\* or rasterizes at once
ExportTriggered ==
    \/ ExportsPending' > ExportsPending
    \/ jobs = <<>> /\ ~download'.none

\* C17: the save button is visible exactly when a faction is selected, and
\* the preview title is non-empty exactly then; a language click clears the
\* selection and hides the button, and an export is triggered only while a
\* faction is selected.
C17_SaveButtonIffFaction ==
    /\ [](saveBtnDisplay = "block" <=> selected # "")
    /\ [](previewTitle # <<>> <=> selected # "")
    /\ [][\A l \in Langs :
              (selected' = "" /\ saveBtnDisplay' = "none") \/ ~LangClick(l)]_vars
    /\ [][ExportTriggered => selected # ""]_vars

\* the selection was cleared while an export triggered before it still waits
C17_Witness ==
    /\ selected = ""
    /\ saveBtnDisplay = "none"
    /\ previewTitle = <<>>
    /\ waiting > 0

(***************************************************************************)
(* C12: scaling of the badge                                               *)
(***************************************************************************)
\* C12 as stated: the circleRadius computed for (2w, 2h) is exactly twice
\* the circleRadius computed for (w, h), in the preview and in the export.
C12_LinearScaling ==
    ~layOut.none =>
        /\ layOut.previewDouble = 2 * layOut.preview
        /\ layOut.exportDouble = 2 * layOut.export

\* the hundredths of 0.12 * min(w, h)
RefHundredths(w, h) == (12 * (IF w < h THEN w ELSE h)) % 100

\* what rounding adds to twice the radius when the size doubles
RefRoundingGap(w, h) ==
    IF RefHundredths(w, h) < 25 THEN 0
    ELSE IF RefHundredths(w, h) < 50 THEN 1
    ELSE IF RefHundredths(w, h) < 75 THEN -1
    ELSE 0

\* C12 as amended: the circleRadius for (2w, 2h) is twice the circleRadius
\* for (w, h) up to rounding: equal when the fraction of 0.12 * min(w, h) is
\* below 0.25 or at least 0.75, one more when it is in [0.25, 0.5), one less
\* when it is in [0.5, 0.75); the preview and the export agree.
C12_ScalingUpToRounding ==
    ~layOut.none =>
        /\ layOut.previewDouble
               = 2 * layOut.preview + RefRoundingGap(layIn.width, layIn.height)
        /\ layOut.exportDouble
               = 2 * layOut.export + RefRoundingGap(layIn.width, layIn.height)
        /\ layOut.preview = layOut.export

\* a size whose radius doubles exactly, and is not zero
C12_Witness ==
    /\ ~layOut.none
    /\ layIn.width = 25 /\ layIn.height = 26
    /\ layOut.preview = 3 /\ layOut.previewDouble = 6
    /\ layOut.export = 3 /\ layOut.exportDouble = 6

====
